---------------------------- MODULE Spec2Model ----------------------------
(***************************************************************************)
(* Model of the multi-repository workspace manager (src/src/main.rs).      *)
(*                                                                         *)
(* One step of the model is one run of the command-line program: main      *)
(* loads workspace.toml, runs one subcommand on the in-memory Workspace    *)
(* and, for the reconciliation subcommands, saves it.  What survives a run *)
(* is the manifest file and the working directory; the other variables     *)
(* record what the last run did (its command, the project list it loaded   *)
(* and ended with, the subprocesses it launched, whether it saved, whether *)
(* it panicked).                                                           *)
(*                                                                         *)
(* A string is the sequence of its lexical units: each punctuation         *)
(* character ("/", ".", ":", "@", " ", newline) is a unit, and so is each  *)
(* run of letters between them.  The string conversions of the program     *)
(* (trim_start_matches, file_stem, split, Url::parse, Provider::from) act  *)
(* on the punctuation and are computed unit by unit.                       *)
(***************************************************************************)
EXTENDS Integers, Sequences, FiniteSets, TLC

(***************************************************************************)
(* Bounds of the model.                                                    *)
(***************************************************************************)
\* Largest number of entries of the manifest a behaviour starts with.
MaxInitProjects == 2
\* Largest number of entries of the working directory a behaviour starts with.
MaxInitEntries == 2

(***************************************************************************)
(* String literals.                                                        *)
(***************************************************************************)
S_github == <<"github">>
S_github_com == <<"github", ".", "com">>
S_GitHub == <<"GitHub">>
S_gitlab_com == <<"gitlab", ".", "com">>
S_dotgit == <<".", "git">>

\* Standard output of `git config --get remote.origin.url` in the checkouts
\* of the model (git ends the line with a newline).
U_widget == <<"https", ":", "/", "/", "github", ".", "com", "/", "octo", "/", "widget", ".", "git", "\n">>
U_gadget == <<"https", ":", "/", "/", "github", "/", "/", "octo", "/", "gadget", "\n">>
U_lab == <<"https", ":", "/", "/", "gitlab", ".", "com", "/", "octo", "/", "widget", ".", "git", "\n">>
U_ssh == <<"git", "@", "github", ".", "com", ":", "octo", "/", "widget", ".", "git", "\n">>
U_file == <<"file", ":", "/", "/", "/", "octo", "/", "widget", "\n">>

\* Manifest paths.
P_widget_git == <<"octo", "/", "widget", ".", "git">>
P_widget == <<"octo", "/", "widget">>
P_acme == <<"acme", "/", "widget">>
P_gadget == <<"octo", "/", "gadget">>
P_dotted == <<"octo", "/", "my", ".", "lib">>
P_acme_slash == <<"acme", "/", "widget", "/">>

\* Names of entries of the working directory.
N_widget == <<"widget">>
N_gadget == <<"gadget">>
N_notes == <<"notes">>
N_plain == <<"plain">>
N_lab == <<"lab">>
N_ssh == <<"ssh">>
N_nohost == <<"nohost">>
N_dangling == <<"dangling">>
N_missing == <<"missing">>

\* Build command lines.
C_make == <<"make">>
C_make_all == <<"make", " ", "all">>

(***************************************************************************)
(* String functions of the standard library, as the program uses them.     *)
(***************************************************************************)
\* str::split(sep): the pieces between the separators, empty pieces kept
\* (the empty string splits into one empty piece).
RECURSIVE SplitFrom(_, _, _, _)
SplitFrom(s, sep, i, cur) ==
    IF i > Len(s) THEN <<cur>>
    ELSE IF s[i] = sep THEN <<cur>> \o SplitFrom(s, sep, i + 1, <<>>)
    ELSE SplitFrom(s, sep, i + 1, Append(cur, s[i]))

Split(s, sep) == SplitFrom(s, sep, 1, <<>>)

\* str::trim_start_matches(c): every leading occurrence of c is removed.
RECURSIVE TrimStartMatches(_, _)
TrimStartMatches(s, c) ==
    IF s # <<>> /\ Head(s) = c THEN TrimStartMatches(Tail(s), c) ELSE s

\* Index of the last occurrence of c in s, 0 when there is none.
LastIndexOf(s, c) ==
    LET hits == {i \in 1..Len(s) : s[i] = c}
    IN  IF hits = {} THEN 0 ELSE CHOOSE i \in hits : \A j \in hits : j <= i

\* Whether s ends with suffix.
EndsWith(s, suffix) ==
    /\ Len(s) >= Len(suffix)
    /\ SubSeq(s, Len(s) - Len(suffix) + 1, Len(s)) = suffix

\* Path::components: the root (if the path is absolute), a leading ".",
\* then the non-empty segments other than ".".
Components(p) ==
    LET raw == Split(p, "/")
        root == IF p # <<>> /\ p[1] = "/" THEN << <<"/">> >> ELSE <<>>
        cur == IF raw[1] = <<".">> THEN << <<".">> >> ELSE <<>>
        normal == SelectSeq(raw, LAMBDA c : c # <<>> /\ c # <<".">>)
    IN  root \o cur \o normal

\* PathBuf equality compares components, not characters.
PathEq(a, b) == Components(a) = Components(b)

\* Path::file_name: the last component when it is a normal one.
HasFileName(p) ==
    LET cs == Components(p)
    IN  /\ cs # <<>>
        /\ cs[Len(cs)] \notin {<<"/">>, <<".">>, <<".", ".">>}

\* Path::file_stem: the file name up to its last "." (the whole name when it
\* has no "." or only a leading one).  Defined when HasFileName(p).
FileStem(p) ==
    LET cs == Components(p)
        name == cs[Len(cs)]
        dot == LastIndexOf(name, ".")
    IN  IF dot <= 1 THEN name ELSE SubSeq(name, 1, dot - 1)

(***************************************************************************)
(* url::Url::parse, host_str and path, for the URLs of the model: a scheme *)
(* followed by "://", an authority that is the host alone (no user, no     *)
(* port), and the path.  Tabs and newlines are removed from the input, the *)
(* host is lower-cased, an empty path of a URL with a host is "/".         *)
(***************************************************************************)
Punctuation == {"/", ".", ":", "@", " ", "+", "-", "\n", "\t"}

IsWord(u) == u \notin Punctuation

\* The lower-case form of the words of the model that have capitals.
ToLower(u) ==
    CASE u = "GitHub" -> "github"
      [] u = "HTTPS" -> "https"
      [] OTHER -> u

LowerCase(s) == [i \in DOMAIN s |-> ToLower(s[i])]

\* Index of the first occurrence of c in s, 0 when there is none.
IndexOf(s, c) ==
    LET hits == {i \in 1..Len(s) : s[i] = c}
    IN  IF hits = {} THEN 0 ELSE CHOOSE i \in hits : \A j \in hits : i <= j

UrlError == [ok |-> FALSE, hasHost |-> FALSE, host |-> <<>>, path |-> <<>>]

ParseUrl(input) ==
    LET t == SelectSeq(input, LAMBDA c : c \notin {"\n", "\t"})
        colon == IndexOf(t, ":")
        schemeOk == /\ colon > 1
                    /\ IsWord(t[1])
                    /\ \A i \in 1..(colon - 1) :
                          IsWord(t[i]) \/ t[i] \in {"+", "-", "."}
        scheme == LowerCase(SubSeq(t, 1, colon - 1))
        rest == SubSeq(t, colon + 1, Len(t))
        slashes == Len(rest) >= 2 /\ rest[1] = "/" /\ rest[2] = "/"
        after == SubSeq(rest, 3, Len(rest))
        cut == IndexOf(after, "/")
        authority == IF cut = 0 THEN after ELSE SubSeq(after, 1, cut - 1)
        path == IF cut = 0 THEN <<"/">> ELSE SubSeq(after, cut, Len(after))
    IN  IF ~schemeOk THEN UrlError
        ELSE IF ~slashes
        THEN [ok |-> TRUE, hasHost |-> FALSE, host |-> <<>>, path |-> rest]
        ELSE IF authority = <<>>
        THEN IF scheme = <<"file">>
             THEN [ok |-> TRUE, hasHost |-> FALSE, host |-> <<>>, path |-> path]
             ELSE UrlError
        ELSE [ok |-> TRUE, hasHost |-> TRUE, host |-> LowerCase(authority),
              path |-> path]

(***************************************************************************)
(* Provider.                                                               *)
(***************************************************************************)
Github == "Github"
NoProvider == "None"

\* Mutant of ProviderFrom: the name is matched whatever its case.
ProviderFrom_IgnoreCase(provider) ==
    IF LowerCase(provider) \in {S_github, S_github_com} THEN Github
    ELSE NoProvider

\* Mutant of ProviderFrom: every name is the name of Github.
ProviderFrom_AnyName(provider) == Github

\* Provider::from: Some(Github) for "github" and "github.com", None otherwise.

ProviderFrom(provider) ==
    IF provider = S_github THEN Github
    ELSE IF provider = S_github_com THEN Github
    ELSE NoProvider

\* Provider::get_url.
GetUrl(provider) ==
    <<"https", ":", "/", "/", "github", ".", "com">>

\* The URL Provider::git_clone hands to `git clone`: format!("{}/{}", ...).
CloneUrl(provider, gitPath) == GetUrl(provider) \o <<"/">> \o gitPath

\* The directory `git clone <url>` creates in the working directory when it
\* is given no directory argument: the last segment of the URL, without a
\* trailing ".git".
CloneDirName(url) ==
    LET segs == SelectSeq(Split(url, "/"), LAMBDA c : c # <<>>)
        last == segs[Len(segs)]
    IN  IF EndsWith(last, S_dotgit) /\ Len(last) > Len(S_dotgit)
        THEN SubSeq(last, 1, Len(last) - Len(S_dotgit))
        ELSE last

(***************************************************************************)
(* The state.                                                              *)
(***************************************************************************)
VARIABLES
    manifestExists, \* whether workspace.toml exists
    manifest,       \* the projects workspace.toml holds (Workspace.projects)
    fs,             \* the entries of the current working directory
    cmd,            \* the subcommand of the last run (Opt)
    loaded,         \* Workspace.projects as the last run loaded it
    fs0,            \* the working directory as the last run found it
    projects,       \* Workspace.projects when the last run ended
    events,         \* what the last run did per project: subprocesses, skips
    added,          \* the directories the last run passed to Workspace::add
    status,         \* "ok": the last run returned from main; "panic": it died
    saved           \* whether the last run called Workspace::save

vars == <<manifestExists, manifest, fs, cmd, loaded, fs0, projects, events,
          added, status, saved>>

\* A Project (struct Project): provider, path, cmd.
Project(path, c) == [provider |-> Github, path |-> path, cmd |-> c]

\* An entry of the working directory: a plain file, a directory (with or
\* without a .git directory; remote is what `git config --get
\* remote.origin.url` prints there) or a dangling symbolic link.
Entry(name, kind, git, remote) ==
    [name |-> name, kind |-> kind, git |-> git, remote |-> remote]

FsUniverse ==
    { Entry(N_widget, "dir", TRUE, U_widget),
      Entry(N_gadget, "dir", TRUE, U_gadget),
      Entry(N_lab, "dir", TRUE, U_lab),
      Entry(N_ssh, "dir", TRUE, U_ssh),
      Entry(N_nohost, "dir", TRUE, U_file),
      Entry(N_plain, "dir", FALSE, <<>>),
      Entry(N_notes, "file", FALSE, <<>>),
      Entry(N_dangling, "broken", FALSE, <<>>) }

\* The projects of the manifests a behaviour starts with.
ProjectUniverse ==
    { Project(P_widget_git, <<>>),
      Project(P_acme, <<C_make>>) }

\* The project with the empty path is what add makes of a remote URL whose
\* path is "/" (https://github.com/).
FanProjectUniverse ==
    ProjectUniverse \cup
    { Project(P_dotted, <<>>),
      Project(<<>>, <<>>) }

SmallProjectUniverse == {Project(P_acme, <<C_make>>)}

FanFsUniverse ==
    { Entry(N_widget, "dir", TRUE, U_widget),
      Entry(N_notes, "file", FALSE, <<>>) }

\* The outcome of launching a subprocess: it could not be spawned
\* (io::Result Err), it ran and exited with a failure status, it succeeded.
Outcomes == {"ok", "exitfail", "spawnfail"}

\* The outcome of the remote query of add: git could not be spawned, or it
\* printed the remote the directory is configured with.
QueryOutcomes == {"ok", "spawnfail"}

\* The sequences over S of length n without repetition.
Arrangements(S, n) ==
    {q \in [1..n -> S] : \A i, j \in 1..n : i # j => q[i] # q[j]}

\* The manifests of at most MaxInitProjects projects, no two of them with
\* the same (provider, path).
Manifests(U) == UNION {Arrangements(U, n) : n \in 0..MaxInitProjects}

\* The working directories of at most MaxInitEntries entries.
Directories(U) == {S \in SUBSET U : Cardinality(S) <= MaxInitEntries}

NoCmd == [name |-> "none", path |-> <<>>, opt |-> <<>>, flag |-> FALSE]

\* Before the first run.
NoRunYet ==
    /\ cmd = NoCmd
    /\ loaded = <<>>
    /\ fs0 = fs
    /\ projects = <<>>
    /\ events = <<>>
    /\ added = <<>>
    /\ status = "ok"
    /\ saved = FALSE

\* The states the reconciliation subcommands (add, rm, scan) start from.
InitRec ==
    /\ manifestExists \in BOOLEAN
    /\ manifest \in IF manifestExists THEN Manifests(ProjectUniverse) ELSE {<<>>}
    /\ fs \in Directories(FsUniverse)
    /\ NoRunYet

\* The states the subcommands over all projects (pull, clone, fetch, sync,
\* build, list) start from.
InitFan ==
    /\ manifestExists \in BOOLEAN
    /\ manifest \in IF manifestExists THEN Manifests(FanProjectUniverse) ELSE {<<>>}
    /\ fs \in Directories(FanFsUniverse)
    /\ NoRunYet

\* The states of a workspace of at most one project, for the runs of every
\* subcommand in any order.
InitSmall ==
    /\ manifestExists \in BOOLEAN
    /\ manifest \in IF manifestExists THEN Manifests(SmallProjectUniverse)
                                      ELSE {<<>>}
    /\ fs \in Directories(FanFsUniverse)
    /\ NoRunYet

Init == InitRec \/ InitFan

(***************************************************************************)
(* Repository and Project.                                                 *)
(***************************************************************************)
\* What one step of a run did: kind is the subprocess ("clone", "pull",
\* "fetch", "build", "config") or "skip" when nothing was launched; proj is
\* the index of the project (0: none); cloned is what exists_local answered;
\* arg is the URL cloned or the directory the subprocess ran in.
Event(kind, proj, cloned, arg, out) ==
    [kind |-> kind, proj |-> proj, cloned |-> cloned, arg |-> arg, out |-> out]

\* Path::exists on <current dir>/<name>: a dangling link does not exist.
PathExists(fsys, name) ==
    \E e \in fsys : e.name = name /\ e.kind # "broken"

IsDir(fsys, name) ==
    \E e \in fsys : e.name = name /\ e.kind = "dir"

\* Project::get_absolute_path panics when the path has no file name.
HasAbsolutePath(p) == HasFileName(p.path)

\* Project::get_absolute_path, relative to the current directory.
GetAbsolutePath(p) == FileStem(p.path)

\* Repository::exists_local of Project::get_repository.
ExistsLocal(fsys, p) == PathExists(fsys, GetAbsolutePath(p))

\* The result of one project's operation: the events, the working
\* directory afterwards, whether the process panicked.
Result(ev, fsys, panic) == [events |-> ev, fs |-> fsys, panic |-> panic]

\* Provider::git_pull: `git pull` in the local path; expect() panics when
\* the process could not be spawned, and only then.
ProviderGitPull(p, i, fsys, out) ==
    Result(<<Event("pull", i, TRUE, GetAbsolutePath(p), out)>>, fsys,
           out = "spawnfail")

\* Provider::git_fetch.
ProviderGitFetch(p, i, fsys, out) ==
    Result(<<Event("fetch", i, TRUE, GetAbsolutePath(p), out)>>, fsys,
           out = "spawnfail")

\* Provider::git_clone: `git clone <url>` in the current directory.  A
\* successful clone creates the directory git derives from the URL; git
\* fails when that directory is already there.
ProviderGitClone(p, i, fsys, out) ==
    LET url == CloneUrl(p.provider, p.path)
        dir == CloneDirName(url)
        taken == \E e \in fsys : e.name = dir
        o == IF out = "ok" /\ taken THEN "exitfail" ELSE out
        made == Entry(dir, "dir", TRUE, url \o <<"\n">>)
    IN  Result(<<Event("clone", i, FALSE, url, o)>>,
               IF o = "ok" THEN fsys \cup {made} ELSE fsys,
               o = "spawnfail")

NoStem(fsys) == Result(<<>>, fsys, TRUE)

Skip(i, cloned, fsys) ==
    Result(<<Event("skip", i, cloned, <<>>, "none")>>, fsys, FALSE)

\* Project::git_pull.
ProjectGitPull(p, i, fsys, out) ==
    IF ~HasAbsolutePath(p) THEN NoStem(fsys)
    ELSE IF ExistsLocal(fsys, p) THEN ProviderGitPull(p, i, fsys, out)
    ELSE Skip(i, FALSE, fsys)

\* Mutant of ProjectGitClone: the clone is launched whatever is there.
ProjectGitClone_Unguarded(p, i, fsys, out) ==
    IF ~HasAbsolutePath(p) THEN NoStem(fsys)
    ELSE ProviderGitClone(p, i, fsys, out)

\* Project::git_clone.
ProjectGitClone(p, i, fsys, out) ==
    IF ~HasAbsolutePath(p) THEN NoStem(fsys)
    ELSE IF ~ExistsLocal(fsys, p) THEN ProviderGitClone(p, i, fsys, out)
    ELSE Skip(i, TRUE, fsys)

\* Project::git_fetch.
ProjectGitFetch(p, i, fsys, out) ==
    IF ~HasAbsolutePath(p) THEN NoStem(fsys)
    ELSE IF ExistsLocal(fsys, p) THEN ProviderGitFetch(p, i, fsys, out)
    ELSE Skip(i, FALSE, fsys)

\* Mutant of ProjectGitSync: a Cloned project is fetched, not pulled.
ProjectGitSync_Fetches(p, i, fsys, out) ==
    IF ~HasAbsolutePath(p) THEN NoStem(fsys)
    ELSE IF ExistsLocal(fsys, p) THEN ProjectGitFetch(p, i, fsys, out)
    ELSE ProjectGitClone(p, i, fsys, out)

\* Project::git_sync.
ProjectGitSync(p, i, fsys, out) ==
    IF ~HasAbsolutePath(p) THEN NoStem(fsys)
    ELSE IF ExistsLocal(fsys, p) THEN ProjectGitPull(p, i, fsys, out)
    ELSE ProjectGitClone(p, i, fsys, out)

\* Mutant of ProjectBuild: a build that exits with a failure status is fatal.
ProjectBuild_ExitIsFatal(p, i, fsys, out) ==
    IF Len(p.cmd) = 0 THEN Skip(i, FALSE, fsys)
    ELSE IF ~HasAbsolutePath(p) THEN NoStem(fsys)
    ELSE LET dir == GetAbsolutePath(p)
             o == IF ~IsDir(fsys, dir) \/ p.cmd[1] = <<>>
                  THEN "spawnfail" ELSE out
         IN  Result(<<Event("build", i, IsDir(fsys, dir), dir, o)>>, fsys,
                    o # "ok")

\* Project::build: nothing for an empty cmd; otherwise cmd[0] is spawned in
\* the local path, which fails when that is no directory or when cmd[0] is
\* the empty string; expect() panics on a spawn failure only.
ProjectBuild(p, i, fsys, out) ==
    IF Len(p.cmd) = 0 THEN Skip(i, FALSE, fsys)
    ELSE IF ~HasAbsolutePath(p) THEN NoStem(fsys)
    ELSE LET dir == GetAbsolutePath(p)
             o == IF ~IsDir(fsys, dir) \/ p.cmd[1] = <<>>
                  THEN "spawnfail" ELSE out
         IN  Result(<<Event("build", i, IsDir(fsys, dir), dir, o)>>, fsys,
                    o = "spawnfail")

\* The `list` closure of main: get_repository only under --cloned.
ProjectList(p, i, fsys, listCloned) ==
    IF listCloned /\ ~HasAbsolutePath(p) THEN NoStem(fsys)
    ELSE Result(<<>>, fsys, FALSE)

ProjectOp(op, p, i, fsys, out) ==
    CASE op = "pull" -> ProjectGitPull(p, i, fsys, out)
      [] op = "clone" -> ProjectGitClone(p, i, fsys, out)
      [] op = "fetch" -> ProjectGitFetch(p, i, fsys, out)
      [] op = "sync" -> ProjectGitSync(p, i, fsys, out)
      [] op = "build" -> ProjectBuild(p, i, fsys, out)
      [] op = "list" -> ProjectList(p, i, fsys, FALSE)
      [] op = "listCloned" -> ProjectList(p, i, fsys, TRUE)

(***************************************************************************)
(* Workspace.                                                              *)
(***************************************************************************)
\* The outcomes of the subprocesses of one run, one per project.
OutcomeVectors(n) == [1..n -> Outcomes]

\* The result of a project followed by the result of the projects after it.
Join(r, rest) == Result(r.events \o rest.events, rest.fs, rest.panic)

\* Mutant of ForEach: the projects after one that panicked are processed too.
RECURSIVE ForEach_KeepsGoing(_, _, _, _, _)
ForEachRest_KeepsGoing(r, op, ps, i, outs) ==
    Result(r.events \o ForEach_KeepsGoing(op, ps, i + 1, r.fs, outs).events,
           ForEach_KeepsGoing(op, ps, i + 1, r.fs, outs).fs,
           r.panic \/ ForEach_KeepsGoing(op, ps, i + 1, r.fs, outs).panic)

ForEach_KeepsGoing(op, ps, i, fsys, outs) ==
    IF i > Len(ps) THEN Result(<<>>, fsys, FALSE)
    ELSE ForEachRest_KeepsGoing(ProjectOp(op, ps[i], i, fsys, outs[i]),
                                op, ps, i, outs)

\* projects.iter().for_each(|project| project.<op>()): in order, until a
\* project panics.  ForEachRest is what follows project i, r being its
\* result: the panic unwinds, or the loop goes on with project i + 1.
RECURSIVE ForEach(_, _, _, _, _)
ForEachRest(r, op, ps, i, outs) ==
    IF r.panic THEN r
    ELSE Join(r, ForEach(op, ps, i + 1, r.fs, outs))

ForEach(op, ps, i, fsys, outs) ==
    IF i > Len(ps) THEN Result(<<>>, fsys, FALSE)
    ELSE ForEachRest(ProjectOp(op, ps[i], i, fsys, outs[i]), op, ps, i, outs)

\* Mutants of Position: nothing ever matches; only the last project is
\* compared.
Position_NeverFound(ps, path, provider) == 0

Position_LastOnly(ps, path, provider) ==
    IF /\ ps # <<>>
       /\ PathEq(ps[Len(ps)].path, path)
       /\ ps[Len(ps)].provider = provider
    THEN Len(ps) ELSE 0

\* projects.iter().position(|p| p.path == path && p.provider == provider):
\* the first index that matches, 0 for None.
Position(ps, path, provider) ==
    LET hits == {i \in 1..Len(ps) :
                    PathEq(ps[i].path, path) /\ ps[i].provider = provider}
    IN  IF hits = {} THEN 0 ELSE CHOOSE i \in hits : \A j \in hits : i <= j

\* Mutant of RemoveAt: the projects after the index are dropped as well.
RemoveAt_Truncate(ps, index) == SubSeq(ps, 1, index - 1)

\* Vec::remove(index).
RemoveAt(ps, index) == SubSeq(ps, 1, index - 1) \o SubSeq(ps, index + 1, Len(ps))

\* Mutant of Remove: the first project goes when nothing matches.
Remove_FirstWhenAbsent(ps, path, provider) ==
    LET index == Position(ps, path, provider)
    IN  IF ps = <<>> THEN ps
        ELSE SubSeq(ps, 1, (IF index = 0 THEN 1 ELSE index) - 1)
             \o SubSeq(ps, (IF index = 0 THEN 1 ELSE index) + 1, Len(ps))

\* Workspace::remove.
Remove(ps, path, provider) ==
    LET index == Position(ps, path, provider)
    IN  IF index = 0 THEN ps ELSE RemoveAt(ps, index)

NoneCmd == [some |-> FALSE, val |-> <<>>]
SomeCmd(c) == [some |-> TRUE, val |-> c]

\* The result of Workspace::add: the project list and the remote query made.
Added(ps, ev) == [projects |-> ps, events |-> ev]

\* The cmd of the new Project: the option split at every space.
SplitCmd(cmdOpt) == IF cmdOpt.some THEN Split(cmdOpt.val, " ") ELSE <<>>

\* Mutants of ManifestPath: nothing is trimmed; one "/" is trimmed.
ManifestPath_Untrimmed(urlPath) == urlPath

ManifestPath_StripOne(urlPath) ==
    IF urlPath # <<>> /\ Head(urlPath) = "/" THEN Tail(urlPath) ELSE urlPath

\* The path of the new Project, from the path of the remote URL.
ManifestPath(urlPath) == TrimStartMatches(urlPath, "/")

\* Workspace::add(path, cmd), out being the outcome of the remote query.
Add(ps, fsys, path, cmdOpt, out) ==
    IF ~\E e \in fsys : e.name = path /\ e.kind = "dir" /\ e.git
    THEN Added(ps, <<>>)
    ELSE
      LET e == CHOOSE e \in fsys : e.name = path
          ev == <<Event("config", 0, TRUE, path, out)>>
          url == ParseUrl(e.remote)
          provider == ProviderFrom(url.host)
          newPath == ManifestPath(url.path)
      IN  IF out = "spawnfail" THEN Added(ps, ev)
          ELSE IF ~url.ok THEN Added(ps, ev)
          ELSE IF ~url.hasHost THEN Added(ps, ev)
          ELSE IF provider = NoProvider THEN Added(ps, ev)
          ELSE IF Position(ps, newPath, provider) = 0
          THEN Added(Append(ps, [provider |-> provider, path |-> newPath,
                                 cmd |-> SplitCmd(cmdOpt)]), ev)
          ELSE Added(ps, ev)

\* The result of Workspace::scan: the project list, the remote queries made
\* and the entries passed to add.
Scanned(ps, ev, ad) == [projects |-> ps, events |-> ev, added |-> ad]

\* The result of add on one entry followed by the result of the scan of the
\* entries after it.
ScanJoin(name, a, rest) ==
    Scanned(rest.projects, a.events \o rest.events, <<name>> \o rest.added)

\* Mutant of ScanFrom: the loop ends at the first plain file.
RECURSIVE ScanFrom_StopAtFile(_, _, _, _, _)
ScanRest_StopAtFile(a, fsys, listing, i, out) ==
    ScanJoin(listing[i].name, a,
             ScanFrom_StopAtFile(a.projects, fsys, listing, i + 1, out))

ScanFrom_StopAtFile(ps, fsys, listing, i, out) ==
    IF i > Len(listing) THEN Scanned(ps, <<>>, <<>>)
    ELSE IF listing[i].kind # "dir" THEN Scanned(ps, <<>>, <<>>)
    ELSE ScanRest_StopAtFile(Add(ps, fsys, listing[i].name, NoneCmd, out),
                             fsys, listing, i, out)

\* The loop of Workspace::scan over the entries as read_dir lists them:
\* fs::metadata fails on a dangling link and `?` leaves the loop; a plain
\* file is skipped; everything else is passed to add (a being its result)
\* and the loop goes on with the next entry (ScanRest).
RECURSIVE ScanFrom(_, _, _, _, _)
ScanRest(a, fsys, listing, i, out) ==
    ScanJoin(listing[i].name, a,
             ScanFrom(a.projects, fsys, listing, i + 1, out))

ScanFrom(ps, fsys, listing, i, out) ==
    IF i > Len(listing) THEN Scanned(ps, <<>>, <<>>)
    ELSE IF listing[i].kind = "broken" THEN Scanned(ps, <<>>, <<>>)
    ELSE IF listing[i].kind = "file" THEN ScanFrom(ps, fsys, listing, i + 1, out)
    ELSE ScanRest(Add(ps, fsys, listing[i].name, NoneCmd, out),
                  fsys, listing, i, out)

NonePath == [some |-> FALSE, val |-> <<>>]
SomePath(p) == [some |-> TRUE, val |-> p]

\* Workspace::scan(path): read_dir fails when the scan root is no directory.
Scan(ps, fsys, pathOpt, listing, out) ==
    IF pathOpt.some /\ ~IsDir(fsys, pathOpt.val) THEN Scanned(ps, <<>>, <<>>)
    ELSE ScanFrom(ps, fsys, listing, 1, out)

(***************************************************************************)
(* main: one action per subcommand.                                        *)
(***************************************************************************)
\* Mutant of NotAWorkspace: the run saves an empty workspace.
NotAWorkspace_CreatesManifest(c) ==
    /\ cmd' = c
    /\ loaded' = <<>>
    /\ fs0' = fs
    /\ projects' = <<>>
    /\ events' = <<>>
    /\ added' = <<>>
    /\ status' = "ok"
    /\ saved' = TRUE
    /\ manifestExists' = TRUE
    /\ manifest' = <<>>
    /\ UNCHANGED fs

\* fs::read("workspace.toml") failed: nothing is done.
NotAWorkspace(c) ==
    /\ cmd' = c
    /\ loaded' = <<>>
    /\ fs0' = fs
    /\ projects' = <<>>
    /\ events' = <<>>
    /\ added' = <<>>
    /\ status' = "ok"
    /\ saved' = FALSE
    /\ UNCHANGED <<manifestExists, manifest, fs>>

\* Mutant of Ran: no run saves.
Ran_NeverSaves(c, ps, ev, ad, fsys, panic, save) ==
    /\ cmd' = c
    /\ loaded' = manifest
    /\ fs0' = fs
    /\ projects' = ps
    /\ events' = ev
    /\ added' = ad
    /\ status' = IF panic THEN "panic" ELSE "ok"
    /\ saved' = FALSE
    /\ fs' = fsys
    /\ UNCHANGED <<manifestExists, manifest>>

\* A run on the loaded workspace: what it did, and the save (Workspace::save
\* writes the project list to workspace.toml).
Ran(c, ps, ev, ad, fsys, panic, save) ==
    /\ cmd' = c
    /\ loaded' = manifest
    /\ fs0' = fs
    /\ projects' = ps
    /\ events' = ev
    /\ added' = ad
    /\ status' = IF panic THEN "panic" ELSE "ok"
    /\ saved' = save
    /\ fs' = fsys
    /\ manifest' = IF save THEN ps ELSE manifest
    /\ UNCHANGED manifestExists

Flag(name, b) == [name |-> name, path |-> <<>>, opt |-> <<>>, flag |-> b]

\* Mutant of FanOut: the run saves the projects it got through.
FanOut_SavesProcessed(c, op) ==
    IF ~manifestExists THEN NotAWorkspace(c)
    ELSE \E outs \in OutcomeVectors(Len(manifest)) :
            LET r == ForEach(op, manifest, 1, fs, outs)
                done == {r.events[i].proj : i \in DOMAIN r.events}
                kept == SelectSeq(manifest, LAMBDA p :
                            \E j \in done : manifest[j] = p)
            IN  Ran(c, kept, r.events, <<>>, r.fs, r.panic, TRUE)

\* The subcommands that apply one Project operation to every project.
FanOut(c, op) ==
    IF ~manifestExists THEN NotAWorkspace(c)
    ELSE \E outs \in OutcomeVectors(Len(manifest)) :
            LET r == ForEach(op, manifest, 1, fs, outs)
            IN  Ran(c, manifest, r.events, <<>>, r.fs, r.panic, FALSE)

Pull == FanOut(Flag("pull", FALSE), "pull")

Clone == FanOut(Flag("clone", FALSE), "clone")

Fetch == FanOut(Flag("fetch", FALSE), "fetch")

Sync == FanOut(Flag("sync", FALSE), "sync")

Build == FanOut(Flag("build", FALSE), "build")

List ==
    \E b \in BOOLEAN :
        FanOut(Flag("list", b), IF b THEN "listCloned" ELSE "list")

\* The arguments of the runs of the model.
AddPaths == {e.name : e \in fs} \cup {N_missing}
CmdOptions == {NoneCmd, SomeCmd(C_make_all), SomeCmd(<<>>)}
RemovePaths ==
    {manifest[i].path : i \in DOMAIN manifest} \cup {P_gadget, P_acme_slash}
ProviderNames == {S_github, S_github_com, S_GitHub, S_gitlab_com}
ScanPaths == {NonePath, SomePath(N_missing)}

\* Opt::Add: add, then save.
CmdAdd ==
    \E path \in AddPaths, c \in CmdOptions, out \in QueryOutcomes :
        LET o == [name |-> "add", path |-> path, opt |-> c.val, flag |-> c.some]
        IN  IF ~manifestExists THEN NotAWorkspace(o)
            ELSE LET a == Add(manifest, fs, path, c, out)
                 IN  Ran(o, a.projects, a.events, <<path>>, fs, FALSE, TRUE)

\* Opt::Remove: remove and save when the provider name resolves.
CmdRemove ==
    \E path \in RemovePaths, name \in ProviderNames :
        LET o == [name |-> "rm", path |-> path, opt |-> name, flag |-> FALSE]
            provider == ProviderFrom(name)
        IN  IF ~manifestExists THEN NotAWorkspace(o)
            ELSE IF provider # NoProvider
            THEN Ran(o, Remove(manifest, path, provider), <<>>, <<>>, fs,
                     FALSE, TRUE)
            ELSE Ran(o, manifest, <<>>, <<>>, fs, FALSE, FALSE)

\* The orders in which read_dir may list the scan root: any order of the
\* working directory, nothing to list when the root is no directory.
Listings(pathOpt) ==
    IF pathOpt.some THEN {<<>>} ELSE Arrangements(fs, Cardinality(fs))

\* Opt::Scan: scan, then save, whatever scan returned.
CmdScan ==
    \E pathOpt \in ScanPaths :
        \E listing \in Listings(pathOpt), out \in QueryOutcomes :
            LET o == [name |-> "scan", path |-> pathOpt.val, opt |-> <<>>,
                      flag |-> pathOpt.some]
            IN  IF ~manifestExists THEN NotAWorkspace(o)
                ELSE LET r == Scan(manifest, fs, pathOpt, listing, out)
                     IN  Ran(o, r.projects, r.events, r.added, fs, FALSE, TRUE)

Next ==
    \/ Pull
    \/ Clone
    \/ Fetch
    \/ Sync
    \/ Build
    \/ List
    \/ CmdAdd
    \/ CmdRemove
    \/ CmdScan

Spec == Init /\ [][Next]_vars

\* The reconciliation subcommands alone.
NextRec ==
    \/ CmdAdd
    \/ CmdRemove
    \/ CmdScan

SpecRec == InitRec /\ [][NextRec]_vars

\* The subcommands over all projects alone.
NextFan ==
    \/ Pull
    \/ Clone
    \/ Fetch
    \/ Sync
    \/ Build
    \/ List

SpecFan == InitFan /\ [][NextFan]_vars

\* Every subcommand, from the workspaces of at most one project.
SpecSmall == InitSmall /\ [][Next]_vars


(***************************************************************************)
(* Vocabulary of the properties.                                           *)
(***************************************************************************)
\* Whether project p has the key (provider, path), paths compared the way
\* the program compares them.
SameKey(p, path, provider) == p.provider = provider /\ PathEq(p.path, path)

KeyCount(ps, path, provider) ==
    Cardinality({i \in DOMAIN ps : SameKey(ps[i], path, provider)})

\* ps without the projects of the key, the others in their order.
Without(ps, path, provider) ==
    SelectSeq(ps, LAMBDA p : ~SameKey(p, path, provider))

EntryNamed(fsys, name) == CHOOSE e \in fsys : e.name = name

IsCheckout(fsys, name) ==
    \E e \in fsys : e.name = name /\ e.kind = "dir" /\ e.git

\* The last run was subcommand name on an existing manifest.
RanCmd(name) == cmd.name = name /\ manifestExists

\* The last run was an add that queried the remote of a checkout and got it.
AddQueried ==
    /\ RanCmd("add")
    /\ Len(events) = 1
    /\ events[1].kind = "config"
    /\ events[1].out = "ok"

\* The last run appended one project.
Appended == Len(projects) = Len(loaded) + 1

Last(ps) == ps[Len(ps)]

\* The events of project p among ev, and the kinds of events.
EventsOf(ev, p) == SelectSeq(ev, LAMBDA e : e.proj = p)
Kinds(ev) == [i \in DOMAIN ev |-> ev[i].kind]

(***************************************************************************)
(* C1 (stated as claimed; the program violates it).  For a project whose   *)
(* local path does not exist, two sync runs in sequence launch exactly one *)
(* clone and then one pull for it, and nothing else.                       *)
(***************************************************************************)
C1_SyncTwiceClonesThenPulls ==
    [][ ( /\ cmd.name = "sync" /\ cmd'.name = "sync"
          /\ manifestExists
          /\ status = "ok" /\ status' = "ok" )
        => \A p \in DOMAIN manifest :
              (\E i \in DOMAIN events : events[i].proj = p /\ ~events[i].cloned)
              => Kinds(EventsOf(events, p) \o EventsOf(events', p))
                   = <<"clone", "pull">> ]_vars

(***************************************************************************)
(* C2.  No two projects of the workspace have the same (provider, path):   *)
(* in the project list a run ends with and in the manifest it saves.       *)
(***************************************************************************)
NoDuplicateKeys(ps) ==
    \A i, j \in DOMAIN ps :
        i # j => ~(ps[i].provider = ps[j].provider /\ ps[i].path = ps[j].path)

C3_AddIsIdempotent ==
    [][ ( /\ AddQueried
          /\ cmd'.name = "add"
          /\ cmd'.path = cmd.path )
        => LET url == ParseUrl(EntryNamed(fs, cmd.path).remote)
               path == ManifestPath(url.path)
               named == /\ url.ok /\ url.hasHost
                        /\ url.host \in {S_github, S_github_com}
           IN  /\ projects' = projects
               /\ manifest' = manifest
               /\ named => KeyCount(projects', path, Github) = 1 ]_vars

\* An add that found the key of its checkout in the manifest, with another
\* command than the one it was given, and changed nothing.
C3_Witness ==
    /\ AddQueried
    /\ projects = loaded
    /\ \E i \in DOMAIN loaded :
          /\ SameKey(loaded[i],
                     ManifestPath(ParseUrl(EntryNamed(fs0, cmd.path).remote).path),
                     Github)
          /\ loaded[i].cmd # SplitCmd([some |-> cmd.flag, val |-> cmd.opt])
          /\ loaded[i].cmd # <<>>

(***************************************************************************)
(* C4.  rm with a provider name that resolves and a path no project has    *)
(* with that provider leaves the project list as loaded, entries and       *)
(* order, and the run ends normally.                                       *)
(***************************************************************************)
C4_RemoveAbsentChangesNothing ==
    ( /\ RanCmd("rm")
      /\ ProviderFrom(cmd.opt) # NoProvider
      /\ KeyCount(loaded, cmd.path, ProviderFrom(cmd.opt)) = 0 )
    => /\ projects = loaded
       /\ manifest = loaded
       /\ status = "ok"

\* A remove of an absent key from a manifest of two projects.
C4_Witness ==
    /\ RanCmd("rm")
    /\ saved
    /\ Len(loaded) >= 2
    /\ KeyCount(loaded, cmd.path, Github) = 0
    /\ projects = loaded

(***************************************************************************)
(* C5.  rm with a provider name that resolves and a path some project has  *)
(* with that provider leaves no project of that key, and keeps every other *)
(* project, in the order they had.                                         *)
(***************************************************************************)
C5_RemoveDeletesTheKeyOnly ==
    ( /\ RanCmd("rm")
      /\ ProviderFrom(cmd.opt) # NoProvider
      /\ KeyCount(loaded, cmd.path, ProviderFrom(cmd.opt)) > 0 )
    => /\ KeyCount(projects, cmd.path, ProviderFrom(cmd.opt)) = 0
       /\ projects = Without(loaded, cmd.path, ProviderFrom(cmd.opt))
       /\ Len(projects) = Len(loaded) - 1
       /\ manifest = projects

\* A remove of the second of three projects.
C5_Witness ==
    /\ RanCmd("rm")
    /\ Len(loaded) = 3
    /\ SameKey(loaded[2], cmd.path, Github)
    /\ projects = <<loaded[1], loaded[3]>>

\* The remote URL of the checkout the last add was given, parsed, and the
\* path add stored in an appended project.
AddUrl == ParseUrl(EntryNamed(fs0, cmd.path).remote)

KnownHosts == {S_github, S_github_com}

(***************************************************************************)
(* C6 (stated as claimed; the program violates it).  add of the checkout   *)
(* whose remote is https://github.com/octo/widget.git, its key not in the  *)
(* manifest, appends a project with provider Github and path "octo/widget".*)
(***************************************************************************)
C6_AddDropsTheGitSuffix ==
    ( /\ AddQueried
      /\ cmd.path = N_widget
      /\ EntryNamed(fs0, N_widget).remote = U_widget
      /\ KeyCount(loaded, P_widget, Github) = 0
      /\ KeyCount(loaded, P_widget_git, Github) = 0 )
    => /\ Appended
       /\ Last(projects).provider = Github
       /\ Last(projects).path = P_widget

(***************************************************************************)
(* C6, amended.  add of the checkout whose remote is                       *)
(* https://github.com/octo/widget.git, its key not in the manifest,        *)
(* appends a project with provider Github and path "octo/widget.git": no   *)
(* leading slash, the ".git" suffix kept.                                  *)
(***************************************************************************)
C6_AddKeepsTheGitSuffix ==
    ( /\ AddQueried
      /\ cmd.path = N_widget
      /\ EntryNamed(fs0, N_widget).remote = U_widget
      /\ KeyCount(loaded, P_widget_git, Github) = 0 )
    => /\ Appended
       /\ SubSeq(projects, 1, Len(loaded)) = loaded
       /\ Last(projects).provider = Github
       /\ Last(projects).path = P_widget_git
       /\ manifest = projects

\* An add that appended the project of that checkout to a manifest that
\* held another project.
C6_Witness ==
    /\ AddQueried
    /\ cmd.path = N_widget
    /\ Len(loaded) >= 1
    /\ Appended
    /\ Last(projects).path = P_widget_git

(***************************************************************************)
(* C7 (stated as claimed; the program violates it).  The path of the       *)
(* project add appends is the path of the remote URL without its first     *)
(* "/", and only that one.                                                 *)
(***************************************************************************)
C7_OneSlashStripped ==
    (AddQueried /\ Appended)
    => /\ AddUrl.path # <<>>
       /\ Head(AddUrl.path) = "/"
       /\ Last(projects).path = Tail(AddUrl.path)

(***************************************************************************)
(* C7, amended.  The path of the project add appends is the path of the    *)
(* remote URL without its leading "/"s, all of them: "/owner/repo" gives   *)
(* "owner/repo", and so does "//owner/repo".                               *)
(***************************************************************************)
Slashes(k) == [i \in 1..k |-> "/"]

C7_EverySlashStripped ==
    (AddQueried /\ Appended)
    => LET path == Last(projects).path
       IN  /\ path = <<>> \/ Head(path) # "/"
           /\ \E k \in 1..Len(AddUrl.path) : AddUrl.path = Slashes(k) \o path

\* An add that appended the project of a URL whose path begins with "//".
C7_Witness ==
    /\ AddQueried
    /\ Appended
    /\ SubSeq(AddUrl.path, 1, 2) = <<"/", "/">>
    /\ Last(projects).path = P_gadget

(***************************************************************************)
(* C8.  A provider name resolves to Github when it is "github" or          *)
(* "github.com" and to no provider otherwise, capitals included; rm        *)
(* resolves its --provider so (it removes the key and saves, or does       *)
(* nothing at all), and add resolves the host of the remote URL so (the    *)
(* key is in the list afterwards, or the list is as loaded).               *)
(***************************************************************************)
C8_ProviderResolution ==
    /\ RanCmd("rm")
       => IF cmd.opt \in KnownHosts
          THEN /\ saved
               /\ projects = Without(loaded, cmd.path, Github)
               /\ manifest = projects
          ELSE /\ ~saved
               /\ projects = loaded
               /\ manifest = loaded
    /\ (AddQueried /\ AddUrl.ok /\ AddUrl.hasHost)
       => IF AddUrl.host \in KnownHosts
          THEN KeyCount(projects, ManifestPath(AddUrl.path), Github) = 1
          ELSE projects = loaded

\* An rm of a path the manifest holds, under the name "GitHub": nothing is
\* removed.
C8_Witness ==
    /\ RanCmd("rm")
    /\ cmd.opt = S_GitHub
    /\ KeyCount(loaded, cmd.path, Github) = 1
    /\ projects = loaded
    /\ ~saved

(***************************************************************************)
(* C9.  scan passes no plain file to add, and an entry add makes nothing   *)
(* of does not keep the other entries from being processed, whatever the   *)
(* order of the listing: when the scan root can be read (here: it is the   *)
(* working directory and holds no dangling link), every entry that is not  *)
(* a plain file is passed to add, and when git could be run every checkout *)
(* whose remote names a provider is in the list afterwards, one new        *)
(* project for each that was not.  The run ends normally and saves.        *)
(***************************************************************************)
Recognizable(e) ==
    /\ e.kind = "dir" /\ e.git
    /\ ParseUrl(e.remote).ok
    /\ ParseUrl(e.remote).hasHost
    /\ ParseUrl(e.remote).host \in KnownHosts

KeyPath(e) == ManifestPath(ParseUrl(e.remote).path)

C9_ScanIsBestEffort ==
    RanCmd("scan")
    => /\ status = "ok"
       /\ saved
       /\ manifest = projects
       /\ \A i \in DOMAIN added :
             \E e \in fs0 : e.name = added[i] /\ e.kind # "file"
       /\ (~cmd.flag /\ \A e \in fs0 : e.kind # "broken")
          => /\ {added[i] : i \in DOMAIN added}
                  = {e.name : e \in {x \in fs0 : x.kind # "file"}}
             /\ (\A i \in DOMAIN events : events[i].out = "ok")
                => /\ \A e \in fs0 :
                         Recognizable(e)
                         => KeyCount(projects, KeyPath(e), Github) = 1
                   /\ SubSeq(projects, 1, Len(loaded)) = loaded
                   /\ Len(projects) = Len(loaded) + Cardinality(
                         {e \in fs0 : /\ Recognizable(e)
                                      /\ KeyCount(loaded, KeyPath(e), Github) = 0})

\* A scan that listed a directory that is no checkout before a checkout, and
\* appended the project of the checkout.
C9_Witness ==
    /\ RanCmd("scan")
    /\ added = <<N_plain, N_widget>>
    /\ Appended
    /\ Last(projects).path = P_widget_git

(***************************************************************************)
(* C10 (stated as claimed; the program violates it).  A run in which the   *)
(* git client reported the failure of a clone, pull or fetch has ended     *)
(* fatally.                                                                *)
(***************************************************************************)
C10_ClientFailureIsFatal ==
    \A i \in DOMAIN events :
        (events[i].kind \in {"clone", "pull", "fetch"} /\ events[i].out # "ok")
        => status = "panic"

(***************************************************************************)
(* Vocabulary of the properties about the subcommands over all projects.   *)
(***************************************************************************)
FanOps == {"pull", "clone", "fetch", "sync", "build"}

\* The events are in the order of the projects, at most one per project.
InProjectOrder(ev) ==
    \A a, b \in DOMAIN ev : a < b => ev[a].proj < ev[b].proj

\* Project j was processed to its end: one event, and no panic there.
Processed(ev, j) ==
    /\ Len(EventsOf(ev, j)) = 1
    /\ EventsOf(ev, j)[1].out # "spawnfail"

\* The run died in project k: its subprocess could not be spawned, or its
\* local path could not be derived (nothing was launched for it).
DiedIn(ev, ps, k) ==
    \/ /\ Len(EventsOf(ev, k)) = 1
       /\ EventsOf(ev, k)[1].out = "spawnfail"
    \/ /\ EventsOf(ev, k) = <<>>
       /\ ~HasFileName(ps[k].path)

(***************************************************************************)
(* C11.  pull, clone, fetch, sync and build process the projects in the    *)
(* order of the manifest, one after the other: a run that ends normally    *)
(* has processed every project; a run that dies in project k has processed *)
(* every project before k to its end and has launched nothing for any      *)
(* project after k.                                                        *)
(***************************************************************************)
C11_FanOutInOrderUntilFatal ==
    (manifestExists /\ cmd.name \in FanOps)
    => /\ InProjectOrder(events)
       /\ \A i \in DOMAIN events : events[i].proj \in DOMAIN loaded
       /\ status = "ok" => \A j \in DOMAIN loaded : Processed(events, j)
       /\ status = "panic"
          => \E k \in DOMAIN loaded :
                /\ DiedIn(events, loaded, k)
                /\ \A j \in 1..(k - 1) : Processed(events, j)
                /\ \A i \in DOMAIN events : events[i].proj <= k

\* A run that died in the first of two projects, its subprocess not spawned:
\* nothing was launched for the second.
C11_Witness ==
    /\ manifestExists
    /\ cmd.name \in FanOps
    /\ status = "panic"
    /\ Len(loaded) = 2
    /\ Len(events) = 1
    /\ events[1].proj = 1
    /\ events[1].out = "spawnfail"

(***************************************************************************)
(* C12 (stated as claimed; the program violates it).  Every run of add, rm *)
(* or scan on an existing manifest saves the manifest, an rm given an      *)
(* unknown provider name included.                                         *)
(***************************************************************************)
C12_ReconciliationAlwaysSaves ==
    (manifestExists /\ cmd.name \in {"add", "rm", "scan"}) => saved

(***************************************************************************)
(* C12, amended.  Every run of add or scan on an existing manifest ends    *)
(* normally and saves the project list it ended with, whatever add made of *)
(* the directories; a run of rm saves exactly when its provider name       *)
(* resolves (whether or not the key was found), and with an unknown        *)
(* provider name it neither changes nor saves anything.                    *)
(***************************************************************************)
C12_SavesUnlessProviderUnknown ==
    /\ (manifestExists /\ cmd.name \in {"add", "scan"})
       => /\ saved
          /\ manifest = projects
          /\ status = "ok"
    /\ RanCmd("rm")
       => /\ status = "ok"
          /\ IF cmd.opt \in KnownHosts
             THEN saved /\ manifest = projects
             ELSE ~saved /\ manifest = loaded /\ projects = loaded

\* An add of a directory that is no checkout, which saved the manifest as it
\* was loaded.
C12_Witness ==
    /\ RanCmd("add")
    /\ \E e \in fs0 : e.name = cmd.path /\ e.kind = "dir" /\ ~e.git
    /\ Len(loaded) >= 1
    /\ projects = loaded
    /\ saved

(***************************************************************************)
(* C13.  pull, clone, fetch, sync, list and build never save and never     *)
(* change the project list: when such a run has ended, normally or not,    *)
(* the project list and the manifest are what the run loaded.              *)
(***************************************************************************)
C13_ReadOnlyRunsKeepTheManifest ==
    (manifestExists /\ cmd.name \in FanOps \cup {"list"})
    => /\ ~saved
       /\ projects = loaded
       /\ manifest = loaded

\* A sync of two projects that cloned one of them into the working
\* directory and left the manifest alone.
C13_Witness ==
    /\ RanCmd("sync")
    /\ Len(loaded) = 2
    /\ fs # fs0
    /\ \E i \in DOMAIN events : events[i].kind = "clone" /\ events[i].out = "ok"
    /\ manifest = loaded
    /\ ~saved

(***************************************************************************)
(* C14.  Where workspace.toml is missing, a run of any subcommand, add, rm *)
(* and scan included, launches nothing, passes nothing to add, changes     *)
(* neither the working directory nor the (absent) manifest, saves nothing, *)
(* creates no manifest, and ends normally.                                 *)
(***************************************************************************)
C14_NoManifestNoOperation ==
    [][ ~manifestExists
        => /\ ~manifestExists'
           /\ manifest' = manifest
           /\ fs' = fs
           /\ projects' = <<>>
           /\ events' = <<>>
           /\ added' = <<>>
           /\ ~saved'
           /\ status' = "ok" ]_vars

\* An add of a checkout, or a scan of a working directory holding one, where
\* there is no manifest.
C14_Witness ==
    /\ ~manifestExists
    /\ cmd.name \in {"add", "scan"}
    /\ cmd.name = "add" => IsCheckout(fs, cmd.path)
    /\ \E e \in fs : e.kind = "dir" /\ e.git
    /\ events = <<>>
    /\ ~saved

\* Project p of the workspace is Uncloned in fsys: its local path can be
\* derived and does not exist.
Uncloned(fsys, p) == HasFileName(p.path) /\ ~ExistsLocal(fsys, p)

\* Project p is Cloned in fsys: its local path exists.
Cloned(fsys, p) == HasFileName(p.path) /\ ExistsLocal(fsys, p)

(***************************************************************************)
(* C15 (stated as claimed; the program violates it).  build launches a     *)
(* process only for Cloned projects: for an Uncloned project nothing is    *)
(* launched and the run does not end there.                                *)
(***************************************************************************)
C15_BuildSkipsUncloned ==
    RanCmd("build")
    => \A j \in DOMAIN loaded :
          Uncloned(fs0, loaded[j])
          => /\ \A i \in DOMAIN events :
                   events[i].proj = j => events[i].kind # "build"
             /\ ~DiedIn(events, loaded, j)

\* The working directory when event i of ev was made, in a run that found
\* fsys0: what the successful clones before it created is there as well.
FsBefore(ev, fsys0, i) ==
    fsys0 \cup
    { Entry(CloneDirName(ev[k].arg), "dir", TRUE, ev[k].arg \o <<"\n">>) :
        k \in {k \in 1..(i - 1) : ev[k].kind = "clone" /\ ev[k].out = "ok"} }

\* A run that died did not die in a project it passed over.
NoSkipFailed ==
    (status = "panic" /\ events # <<>> /\ Last(events).kind = "skip")
    => /\ Last(events).proj < Len(loaded)
       /\ ~HasFileName(loaded[Last(events).proj + 1].path)

(***************************************************************************)
(* C16.  In every run of pull, fetch or clone, what is done for a project  *)
(* follows its local presence at that moment: pull and fetch launch git in *)
(* the local path when the project is Cloned and pass it over when it is   *)
(* Uncloned; clone launches git when the project is Uncloned and passes it *)
(* over when it is Cloned.  Passing over launches nothing, fails nothing   *)
(* and changes nothing in the working directory.  (Cloned and Uncloned are *)
(* states of a project whose local path can be derived.)                   *)
(***************************************************************************)
C16_GuardsFollowLocalPresence ==
    (manifestExists /\ cmd.name \in {"pull", "fetch", "clone"})
    => /\ \A i \in DOMAIN events :
             LET e == events[i]
                 p == loaded[e.proj]
                 before == FsBefore(events, fs0, i)
             IN  /\ HasFileName(p.path)
                 /\ e.kind \in {cmd.name, "skip"}
                 /\ e.kind = "clone"
                    <=> (cmd.name = "clone" /\ Uncloned(before, p))
                 /\ e.kind \in {"pull", "fetch"}
                    <=> (cmd.name \in {"pull", "fetch"} /\ Cloned(before, p))
                 /\ e.kind = "clone" => e.arg = CloneUrl(p.provider, p.path)
                 /\ e.kind \in {"pull", "fetch"}
                    => /\ e.arg = FileStem(p.path)
                       /\ PathExists(before, e.arg)
       /\ fs = FsBefore(events, fs0, Len(events) + 1)
       /\ cmd.name \in {"pull", "fetch"} => fs = fs0
       /\ NoSkipFailed

\* A clone run that passed over a Cloned project and cloned an Uncloned one.
C16_Witness ==
    /\ RanCmd("clone")
    /\ Kinds(events) = <<"skip", "clone">>
    /\ Cloned(fs0, loaded[1])
    /\ Uncloned(fs0, loaded[2])
    /\ events[2].out = "ok"
    /\ status = "ok"

(***************************************************************************)
(* C17.  In a sync run every project that is reached and has a local path  *)
(* gets exactly one launch of git, chosen by its local presence at that    *)
(* moment: a pull in the local path when it is Cloned, a clone of its URL  *)
(* when it is Uncloned; never a fetch, never nothing, never two.  The run  *)
(* dies in a project only when that launch could not be made, or when the  *)
(* project has no local path to derive; never because the project is       *)
(* Cloned or Uncloned.                                                     *)
(***************************************************************************)
C17_SyncLaunchesOnePullOrClone ==
    RanCmd("sync")
    => /\ InProjectOrder(events)
       /\ \A i \in DOMAIN events :
             LET e == events[i]
                 p == loaded[e.proj]
                 before == FsBefore(events, fs0, i)
             IN  /\ HasFileName(p.path)
                 /\ e.kind \in {"pull", "clone"}
                 /\ e.kind = "pull" <=> Cloned(before, p)
                 /\ e.kind = "clone" <=> Uncloned(before, p)
                 /\ e.kind = "pull" => e.arg = FileStem(p.path)
                 /\ e.kind = "clone" => e.arg = CloneUrl(p.provider, p.path)
       /\ status = "ok"
          => \A j \in DOMAIN loaded : Len(EventsOf(events, j)) = 1
       /\ status = "panic"
          => \E k \in DOMAIN loaded :
                /\ DiedIn(events, loaded, k)
                /\ \A j \in 1..(k - 1) : Len(EventsOf(events, j)) = 1
                /\ \A i \in DOMAIN events : events[i].proj <= k

\* A sync run that pulled a Cloned project and cloned an Uncloned one.
C17_Witness ==
    /\ RanCmd("sync")
    /\ Kinds(events) = <<"pull", "clone">>
    /\ Cloned(fs0, loaded[1])
    /\ Uncloned(fs0, loaded[2])
    /\ status = "ok"

(***************************************************************************)
(* C18 (stated as claimed; the program violates it).  In a run of sync,    *)
(* clone or pull over a manifest without duplicate keys, what is launched  *)
(* for a project follows from that project's own local presence before the *)
(* run (so the order of the manifest does not matter), and a project that  *)
(* was Uncloned before the run is Cloned after it only if it was cloned    *)
(* itself.                                                                 *)
(***************************************************************************)
C18_ProjectsAreIndependent ==
    ( /\ manifestExists
      /\ cmd.name \in {"sync", "clone", "pull"}
      /\ NoDuplicateKeys(loaded) )
    => /\ \A i \in DOMAIN events :
             LET e == events[i]
                 p == loaded[e.proj]
             IN  /\ e.kind = "pull" => Cloned(fs0, p)
                 /\ e.kind = "clone" => Uncloned(fs0, p)
                 /\ e.kind = "skip" => (cmd.name = "clone" <=> Cloned(fs0, p))
       /\ \A j \in DOMAIN loaded :
             (Uncloned(fs0, loaded[j]) /\ Cloned(fs, loaded[j]))
             => \E i \in DOMAIN events :
                   /\ events[i].proj = j
                   /\ events[i].kind = "clone"
                   /\ events[i].out = "ok"

\* Why the last add, of a directory of the working directory, could not make
\* a project of it: no .git directory; git could not be run; its output is
\* no URL; the URL has no host; the host names no provider.
AddFailure ==
    IF ~IsCheckout(fs0, cmd.path) THEN "not a repository"
    ELSE IF events[1].out # "ok" THEN "invalid remote"
    ELSE IF ~AddUrl.ok THEN "no url"
    ELSE IF ~AddUrl.hasHost THEN "no host"
    ELSE IF AddUrl.host \notin KnownHosts THEN "no provider"
    ELSE "none"

(***************************************************************************)
(* C19.  An add that fails (the directory has no .git directory, the query *)
(* of the remote URL fails, its output does not parse as a URL, the URL    *)
(* has no host, the host names no provider) appends nothing, changes no    *)
(* project, and returns normally: the run goes on to save the list as it   *)
(* was loaded.                                                             *)
(***************************************************************************)
C19_FailedAddChangesNothing ==
    (RanCmd("add") /\ AddFailure # "none")
    => /\ projects = loaded
       /\ status = "ok"
       /\ saved
       /\ manifest = loaded
       /\ IsCheckout(fs0, cmd.path) <=> Len(events) = 1

\* An add of a checkout whose remote is on a host that names no provider,
\* into a manifest of two projects.
C19_Witness ==
    /\ RanCmd("add")
    /\ AddFailure = "no provider"
    /\ Len(loaded) = 2
    /\ projects = loaded

(***************************************************************************)
(* C20.  In a build run a project with an empty cmd gets no process and    *)
(* does not fail; a project with a non-empty cmd gets one process, in its  *)
(* local path.  A process that exits with a failure status does not end    *)
(* the run: the next project is built.  The run dies only in a project     *)
(* whose process could not be spawned (or whose local path could not be    *)
(* derived), and nothing in the working directory is changed.              *)
(***************************************************************************)
C20_BuildFailsOnSpawnOnly ==
    RanCmd("build")
    => /\ InProjectOrder(events)
       /\ \A i \in DOMAIN events :
             LET e == events[i]
                 p == loaded[e.proj]
             IN  /\ e.kind = "skip" <=> p.cmd = <<>>
                 /\ e.kind = "build" <=> p.cmd # <<>>
                 /\ e.kind = "build"
                    => /\ HasFileName(p.path)
                       /\ e.arg = FileStem(p.path)
                       /\ e.out \in Outcomes
                 /\ e.out = "spawnfail" => (status = "panic" /\ i = Len(events))
       /\ status = "ok" => \A j \in DOMAIN loaded : Processed(events, j)
       /\ status = "panic"
          => \E k \in DOMAIN loaded :
                /\ loaded[k].cmd # <<>>
                /\ DiedIn(events, loaded, k)
                /\ \A j \in 1..(k - 1) : Processed(events, j)
                /\ \A i \in DOMAIN events : events[i].proj <= k
       /\ fs = fs0

\* A build run whose first process exited with a failure status and which
\* went on to the second project and ended normally.
C20_Witness ==
    /\ RanCmd("build")
    /\ Len(events) = 2
    /\ events[1].kind = "build"
    /\ events[1].out = "exitfail"
    /\ events[2].proj = 2
    /\ status = "ok"

=============================================================================
